---- MODULE Spec2Model ----
(***************************************************************************)
(* VibeSec backend: the asynchronous scan-job orchestrator (scan routes,   *)
(* BullMQ queue and worker, scanRepository pipeline) and the apply-fix     *)
(* route.                                                                  *)
(*                                                                         *)
(* The module holds state machines over disjoint variable groups:          *)
(*   Spec       the life of one submitted scan job, at the granularity of  *)
(*              the awaits of scanRepository (rows of scans and            *)
(*              vulnerabilities, the BullMQ job, the fire-and-forget       *)
(*              progress writes);                                          *)
(*   SpecLive   the same with the worker and the awaited calls going on;   *)
(*   SpecRoutes the handlers POST /api/scan and GET /api/scan/:id over the *)
(*              row of one scan, which the worker updates meanwhile;       *)
(*   SpecPool   the queue and the worker pool over several jobs, one       *)
(*              processor call being "start" then "resolve or reject";     *)
(*   SpecApply  the POST /apply-fix handler against the GitHub API;        *)
(*   SpecPatch  the edits POST /apply-fix makes to the content of an       *)
(*              existing file;                                             *)
(*   SpecFix    concurrent POST /generate-fix requests for one             *)
(*              vulnerability over the table ai_fixes;                     *)
(*   SpecWs     the WebSocket connections for one scan id, the registry    *)
(*              wsClients and the messages the pipeline sends;             *)
(*   SpecBranch two concurrent POST /apply-fix requests up to the branch  *)
(*              they create, with the clock their branch names read;      *)
(*   SpecPush   the executions of one job next to the connections of its   *)
(*              scan id: what scanRepository sends, what it persists and   *)
(*              the temporary directory it works in.                       *)
(***************************************************************************)
EXTENDS Integers, Sequences, FiniteSets, TLC

VARIABLES
    \* ---- one scan job (Spec) ----
    scanStatus,      \* scans.status of the job's row
    scanProgress,    \* scans.progress
    vulnRows,        \* number of rows of vulnerabilities with scan_id = job
    jobState,        \* BullMQ state of the job whose jobId is the scan id
    attemptsMade,    \* BullMQ job.attemptsMade
    retryDelay,      \* backoff delay of the last move to delayed (ms)
    executions,      \* how many times the processor was started for the job
    pc,              \* the await scanRepository is suspended at
    detIdx,          \* index of the detector being awaited
    tempDir,         \* local tempDir is non-null (the directory exists)
    allVulns,        \* findings collected by this execution
    inserted,        \* vulnerabilitiesWithIds.length
    inflight,        \* progress UPDATEs issued by emitProgress, not yet run
    dbFaults,        \* queries that have been rejected so far
    lastEvent,       \* last 'complete' or 'error' message sent to the client
    \* ---- the scan routes (SpecRoutes) ----
    rowStatus,       \* scans.status of the scan's row; "none" = no row
    rowUrl,          \* scans.repository_url of the row
    rowCount,        \* number of rows of vulnerabilities of the scan
    queued,          \* the queue holds a job whose jobId is the scan id
    response,        \* last HTTP response of the scan routes
    request,         \* the GET request that was answered last
    \* ---- queue and worker pool (SpecPool) ----
    qNext,           \* number of scan ids handed out so far
    qWait,           \* BullMQ wait list (FIFO) of job ids
    qRunning,        \* job id -> processor calls in progress for the job
    qDelayed,        \* job ids waiting for their backoff delay
    qFinished,       \* job id -> "completed" / "failed" / "no"
    qAttempts,       \* job id -> attemptsMade
    qStatus,         \* job id -> scans.status
    qFailures,       \* processor rejections so far
    \* ---- POST /apply-fix (SpecApply) ----
    apPc,            \* position of the handler
    apCaller,        \* the authenticated caller of the request
    apFix,           \* fixData.files of the FixAttempt being applied
    apFileIdx,       \* index of the FileChange being written
    apSha,           \* currentSha of the FileChange being written
    apBranch,        \* branches created on the repository
    apWrites,        \* createOrUpdateFileContents calls that were accepted
    apPulls,         \* pull requests created
    apCalls,         \* calls made to the mutation methods of the provider
    apResponse,      \* HTTP status of the response, 0 = none yet
    apBody,          \* JSON body of the response
    \* ---- edits of an existing file (SpecPatch) ----
    currentContent,  \* content fetched for the file, a sequence of characters
    changes,         \* fileChange.changes as listed in the fix
    newContent,      \* content written back
    patchPc,         \* "idle", "edit" (content fetched), "written"
    \* ---- POST /generate-fix for one vulnerability (SpecFix) ----
    aiFixes,         \* attempt_number -> row of ai_fixes of the vulnerability
    patchSeq,        \* fixes the provider has produced so far
    gen,             \* request slot -> state of the handler running in it
    \* ---- WebSocket connections of one scan id (SpecWs) ----
    wsClients,       \* wsClients.get(scanId): a connection, 0 for no entry
    wsState,         \* connection -> "new", "open", "broken", "errored",
                     \* "closed"
    wsReplaced,      \* connections whose entry was overwritten by a later one
    wsLatest,        \* the connection that registered last, 0 for none
    wsEvents,        \* messages the pipeline has had to send so far
    wsSentTo,        \* connections the last of them was sent to
    \* ---- the executions of a job and its subscriber (SpecPush) ----
    run,             \* the job, its row and the execution of scanRepository
    ref,             \* the same job run with no client ever registered
    runFaults,       \* awaits of the executions that were rejected so far
    subLog,          \* messages received by the registered connection, as
                     \* long as it can receive: the one before the last
                     \* stretch, then those of the last stretch
    \* ---- branch names of POST /apply-fix (SpecBranch) ----
    brNow,           \* Date.now(), in milliseconds
    brRefs,          \* branches of the repository
    brReq            \* request slot -> position, branchName, writes, answer

jobVars == <<scanStatus, scanProgress, vulnRows, jobState, attemptsMade,
             retryDelay, executions, pc, detIdx, tempDir, allVulns, inserted,
             inflight, dbFaults, lastEvent>>
routeVars == <<rowStatus, rowUrl, rowCount, queued, response, request>>
poolVars == <<qNext, qWait, qRunning, qDelayed, qFinished, qAttempts, qStatus,
              qFailures>>
applyVars == <<apPc, apCaller, apFix, apFileIdx, apSha, apBranch, apWrites, apPulls,
               apCalls, apResponse, apBody>>
patchVars == <<currentContent, changes, newContent, patchPc>>
fixVars == <<aiFixes, patchSeq, gen>>
wsVars == <<wsClients, wsState, wsReplaced, wsLatest, wsEvents, wsSentTo>>
pushVars == <<run, ref, runFaults, subLog>>
branchVars == <<brNow, brRefs, brReq>>
vars == <<jobVars, routeVars, poolVars, applyVars, patchVars, fixVars, wsVars,
          pushVars, branchVars>>

----------------------------------------------------------------------------
(* Bounds of the model *)

MaxFindings == 1      \* findings one execution collects at most
MaxDbFaults == 1      \* rejected queries in one behaviour
MaxInFlight == 2      \* progress writes in flight at once
MaxRows == 2          \* rows of vulnerabilities the routes can see
NumJobs == 6          \* scans submitted to the pool
MaxFailures == 3      \* processor rejections in the pool
MaxFiles == 2         \* FileChanges of a fix
MaxChars == 4         \* characters of the content fetched for a file
MaxChanges == 2       \* changes listed for an existing file
MaxLine == 3          \* highest lineNumber of a change
MaxPatches == 2       \* fixes the provider produces in one behaviour
NumConns == 3         \* WebSocket connections made for the scan id
MaxRunFaults == 2     \* rejected awaits over the executions of the job
MaxClock == 2         \* milliseconds that pass while fixes are applied
MaxEvents == 3        \* messages the pipeline sends for the scan

(* Program constants *)

Attempts == 3                 \* defaultJobOptions.attempts
BackoffDelay == 2000          \* defaultJobOptions.backoff.delay
Concurrency == 5              \* Worker option concurrency

----------------------------------------------------------------------------
(* validateGitHubUrl: the pattern                                          *)
(*  ^https?:\/\/(www\.)?github\.com\/[a-zA-Z0-9]([a-zA-Z0-9-]*[a-zA-Z0-9])?*)
(*  \/[a-zA-Z0-9._-]+(?:\/)?$                                              *)
(* A URL is a record of its parts; owner and repo are sequences of         *)
(* one-character strings.                                                  *)

Alnum == {"a", "b", "Z", "0", "9"}

NoUrl == [scheme |-> "", www |-> FALSE, host |-> "", owner |-> <<>>,
          repo |-> <<>>, slash |-> FALSE, rest |-> ""]

Url(s, w, h, o, r, sl, rest) ==
    [scheme |-> s, www |-> w, host |-> h, owner |-> o, repo |-> r,
     slash |-> sl, rest |-> rest]

WellFormedUrls ==
    { Url("https://", FALSE, "github.com", <<"a", "-", "b">>, <<"a", ".", "_", "-">>, FALSE, ""),
      Url("http://", TRUE, "github.com", <<"Z">>, <<"0">>, TRUE, "") }

MalformedUrls ==
    { Url("https://", FALSE, "github.com", <<"-", "a">>, <<"a">>, FALSE, ""),
      Url("https://", FALSE, "github.com", <<"a">>, <<"a", "!">>, FALSE, ""),
      Url("https://", FALSE, "gitlab.com", <<"a">>, <<"b">>, FALSE, ""),
      Url("https://", FALSE, "github.com", <<"a">>, <<"b">>, FALSE, "/tree/main") }

SampleUrls == {NoUrl} \cup WellFormedUrls \cup MalformedUrls

OwnerOk(o) ==
    /\ Len(o) >= 1
    /\ o[1] \in Alnum
    /\ o[Len(o)] \in Alnum
    /\ \A i \in 1..Len(o) : o[i] \in Alnum \cup {"-"}

RepoOk(r) ==
    /\ Len(r) >= 1
    /\ \A i \in 1..Len(r) : r[i] \in Alnum \cup {".", "_", "-"}

validateGitHubUrlAlways(url) == TRUE

validateGitHubUrl(url) ==
    /\ url # NoUrl
    /\ url.scheme \in {"http://", "https://"}
    /\ url.host = "github.com"
    /\ OwnerOk(url.owner)
    /\ RepoOk(url.repo)
    /\ url.rest = ""

----------------------------------------------------------------------------
(* The scanRepository pipeline of one job                                  *)

\* <<progress of the 'active' event, progress of the 'complete' event>> of
\* the twelve detector steps (Step 3 .. Step 14), in the order they run
DetectorStages ==
    << <<35, 40>>, <<42, 45>>, <<47, 50>>, <<52, 55>>, <<57, 60>>, <<62, 65>>,
       <<67, 70>>, <<72, 75>>, <<77, 80>>, <<82, 85>>, <<87, 90>>, <<92, 95>> >>

NumDetectors == Len(DetectorStages)

\* outcomes an awaited query can have: it runs, or it is rejected
DbOutcomes == IF dbFaults < MaxDbFaults THEN {TRUE, FALSE} ELSE {TRUE}

\* emitProgress called for each value of ps, in one synchronous stretch:
\* the client registered for the scan, if OPEN, is sent the 'log' messages
\* (no state of the server changes by that); the UPDATEs are issued and not
\* awaited
HasRoom(ps) == Cardinality(inflight \cup ps) <= MaxInFlight

emitProgress(ps) == inflight' = inflight \cup ps

\* wsClients.get(scanId) is an OPEN client or not, as clients connect and
\* close at any time
ClientOpen == BOOLEAN

\* exponential backoff of BullMQ: delay * 2^(attemptsMade - 1)
Pow2(n) == IF n <= 0 THEN 1 ELSE IF n = 1 THEN 2 ELSE IF n = 2 THEN 4 ELSE 8

Backoff(made) == BackoffDelay * Pow2(made - 1)

\* a job that has failed 'made' times is retried while made < attempts
attemptsLeftOneMore(made) == made <= Attempts

attemptsLeft(made) == made < Attempts

\* the worker settles the job after the processor resolved (failed = FALSE)
\* or rejected (failed = TRUE)
moveToFinished(failed) ==
    IF ~failed
    THEN /\ jobState' = "completed"
         /\ UNCHANGED <<attemptsMade, retryDelay>>
    ELSE /\ attemptsMade' = attemptsMade + 1
         /\ IF attemptsLeft(attemptsMade + 1)
            THEN /\ jobState' = "delayed"
                 /\ retryDelay' = Backoff(attemptsMade + 1)
            ELSE /\ jobState' = "failed"
                 /\ UNCHANGED retryDelay

\* a rejected await inside the try block: control goes to the catch block,
\* whose first statement issues the UPDATE status = 'failed'
toCatch ==
    /\ pc' = "catchUpdate"
    /\ UNCHANGED <<scanStatus, scanProgress, vulnRows, jobState, attemptsMade,
                   retryDelay, executions, detIdx, tempDir, allVulns,
                   inserted, inflight, lastEvent>>

JobFrame ==
    UNCHANGED <<routeVars, poolVars, applyVars, patchVars, fixVars, wsVars, pushVars,
                branchVars>>

\* the worker takes the job from the wait list and calls the processor,
\* which runs scanRepository up to its first await (UPDATE status)
WorkerTake ==
    /\ jobState = "wait"
    /\ jobState' = "active"
    /\ executions' = executions + 1
    /\ pc' = "updateScanning"
    /\ detIdx' = 0
    /\ tempDir' = FALSE
    /\ allVulns' = 0
    /\ inserted' = 0
    /\ UNCHANGED <<scanStatus, scanProgress, vulnRows, attemptsMade,
                   retryDelay, inflight, dbFaults, lastEvent>>
    /\ JobFrame

\* the backoff delay of a delayed job has elapsed
PromoteDelayed ==
    /\ jobState = "delayed"
    /\ jobState' = "wait"
    /\ UNCHANGED <<scanStatus, scanProgress, vulnRows, attemptsMade,
                   retryDelay, executions, pc, detIdx, tempDir, allVulns,
                   inserted, inflight, dbFaults, lastEvent>>
    /\ JobFrame

\* await UPDATE scans SET status = 'scanning'; emitProgress(10);
\* createTempDirectory() is called
StepUpdateScanning ==
    /\ pc = "updateScanning"
    /\ \E ok \in DbOutcomes :
        IF ok THEN
            /\ HasRoom({10})
            /\ scanStatus' = "scanning"
            /\ emitProgress({10})
            /\ pc' = "createTemp"
            /\ UNCHANGED <<lastEvent, scanProgress, vulnRows, jobState, attemptsMade,
                           retryDelay, executions, detIdx, tempDir, allVulns,
                           inserted, dbFaults>>
        ELSE
            /\ dbFaults' = dbFaults + 1
            /\ toCatch
    /\ JobFrame

\* tempDir = await createTempDirectory(); cloneRepository() is called
StepCreateTemp ==
    /\ pc = "createTemp"
    /\ tempDir' = TRUE
    /\ pc' = "clone"
    /\ UNCHANGED <<scanStatus, scanProgress, vulnRows, jobState, attemptsMade,
                   retryDelay, executions, detIdx, allVulns, inserted,
                   inflight, dbFaults, lastEvent>>
    /\ JobFrame

\* await cloneRepository(); emitProgress(15); emitProgress(20);
\* detectTechStack() is called
StepClone ==
    /\ pc = "clone"
    /\ \E ok \in BOOLEAN :
        IF ok THEN
            /\ HasRoom({15, 20})
            /\ emitProgress({15, 20})
            /\ pc' = "detectTech"
            /\ UNCHANGED <<lastEvent, scanStatus, scanProgress, vulnRows, jobState,
                           attemptsMade, retryDelay, executions, detIdx,
                           tempDir, allVulns, inserted>>
        ELSE toCatch
    /\ UNCHANGED dbFaults
    /\ JobFrame

\* await detectTechStack(); emitProgress(30); UPDATE tech_stack is issued
StepDetectTech ==
    /\ pc = "detectTech"
    /\ HasRoom({30})
    /\ emitProgress({30})
    /\ pc' = "updateTech"
    /\ UNCHANGED <<lastEvent, scanStatus, scanProgress, vulnRows, jobState, attemptsMade,
                   retryDelay, executions, detIdx, tempDir, allVulns, inserted,
                   dbFaults>>
    /\ JobFrame

\* await UPDATE scans SET tech_stack; emitProgress(35); the first detector
\* is called
StepUpdateTech ==
    /\ pc = "updateTech"
    /\ \E ok \in DbOutcomes :
        IF ok THEN
            /\ HasRoom({DetectorStages[1][1]})
            /\ emitProgress({DetectorStages[1][1]})
            /\ pc' = "detect"
            /\ detIdx' = 1
            /\ UNCHANGED <<lastEvent, scanStatus, scanProgress, vulnRows, jobState,
                           attemptsMade, retryDelay, executions, tempDir,
                           allVulns, inserted, dbFaults>>
        ELSE
            /\ dbFaults' = dbFaults + 1
            /\ toCatch
    /\ JobFrame

\* what scanRepository awaits once the findings are combined: the first
\* INSERT of the loop, or the final UPDATE when the loop is empty
afterCombineNoStore(n) == "finalUpdate"

afterCombine(n) == IF n > 0 THEN "insert" ELSE "finalUpdate"

\* await detector detIdx, which returns k findings or throws;
\* emitProgress('complete'); then the next detector's emitProgress('active')
\* and call, or after the last one emitProgress(98), the combined list, the
\* score and the first query of the store loop
StepDetect ==
    /\ pc = "detect"
    /\ \E ok \in BOOLEAN, k \in 0..1 :
        IF ok THEN
            /\ allVulns + k <= MaxFindings
            /\ allVulns' = allVulns + k
            /\ IF detIdx < NumDetectors
               THEN /\ HasRoom({DetectorStages[detIdx][2], DetectorStages[detIdx + 1][1]})
                    /\ emitProgress({DetectorStages[detIdx][2], DetectorStages[detIdx + 1][1]})
                    /\ detIdx' = detIdx + 1
                    /\ pc' = "detect"
               ELSE /\ HasRoom({DetectorStages[detIdx][2], 98})
                    /\ emitProgress({DetectorStages[detIdx][2], 98})
                    /\ detIdx' = detIdx
                    /\ pc' = afterCombine(allVulns + k)
            /\ UNCHANGED <<lastEvent, scanStatus, scanProgress, vulnRows, jobState,
                           attemptsMade, retryDelay, executions, tempDir,
                           inserted>>
        ELSE /\ k = 0
             /\ toCatch
    /\ UNCHANGED dbFaults
    /\ JobFrame

\* one turn of the store loop: await INSERT INTO vulnerabilities, push to
\* vulnerabilitiesWithIds; after the last one the final UPDATE is issued
StepInsert ==
    /\ pc = "insert"
    /\ \E ok \in DbOutcomes :
        IF ok THEN
            /\ vulnRows' = vulnRows + 1
            /\ inserted' = inserted + 1
            /\ pc' = IF inserted + 1 < allVulns THEN "insert" ELSE "finalUpdate"
            /\ UNCHANGED <<scanStatus, scanProgress, jobState, attemptsMade,
                           retryDelay, executions, detIdx, tempDir, allVulns,
                           inflight, dbFaults, lastEvent>>
        ELSE
            /\ dbFaults' = dbFaults + 1
            /\ toCatch
    /\ JobFrame

\* await UPDATE scans SET status = 'completed', score, progress = 100;
\* emitProgress(100); the 'complete' message; return result; the finally
\* block calls cleanupTempDirectory
StepFinalUpdate ==
    /\ pc = "finalUpdate"
    /\ \E ok \in DbOutcomes :
        IF ok THEN
            /\ HasRoom({100})
            /\ scanStatus' = "completed"
            /\ scanProgress' = 100
            /\ inflight' = inflight \cup {100}
            /\ \E open \in ClientOpen :
                lastEvent' = IF open THEN "complete" ELSE lastEvent
            /\ pc' = "cleanupReturn"
            /\ UNCHANGED <<vulnRows, jobState, attemptsMade, retryDelay,
                           executions, detIdx, tempDir, allVulns, inserted,
                           dbFaults>>
        ELSE
            /\ dbFaults' = dbFaults + 1
            /\ toCatch
    /\ JobFrame

\* catch block: await UPDATE scans SET status = 'failed'; the 'error'
\* message; throw error.  A rejected UPDATE leaves the catch block at once
\* with the rejection.  Either way the finally block calls
\* cleanupTempDirectory when tempDir is set, otherwise the processor rejects
StepCatchUpdate ==
    /\ pc = "catchUpdate"
    /\ \E ok \in DbOutcomes :
        /\ IF ok
           THEN /\ scanStatus' = "failed"
                /\ \E open \in ClientOpen :
                    lastEvent' = IF open THEN "error" ELSE lastEvent
                /\ UNCHANGED dbFaults
           ELSE /\ dbFaults' = dbFaults + 1
                /\ UNCHANGED <<scanStatus, lastEvent>>
        /\ IF tempDir
           THEN /\ pc' = "cleanupThrow"
                /\ UNCHANGED <<jobState, attemptsMade, retryDelay>>
           ELSE /\ pc' = "idle"
                /\ moveToFinished(TRUE)
    /\ UNCHANGED <<scanProgress, vulnRows, executions, detIdx, tempDir,
                   allVulns, inserted, inflight>>
    /\ JobFrame

\* finally block: await cleanupTempDirectory(tempDir); scanRepository
\* returns or rethrows and the worker settles the job
StepCleanup ==
    /\ pc \in {"cleanupReturn", "cleanupThrow"}
    /\ tempDir' = FALSE
    /\ pc' = "idle"
    /\ moveToFinished(pc = "cleanupThrow")
    /\ UNCHANGED <<scanStatus, scanProgress, vulnRows, executions, detIdx,
                   allVulns, inserted, inflight, dbFaults, lastEvent>>
    /\ JobFrame

\* one of the UPDATE scans SET progress issued by emitProgress runs
ProgressWriteLands ==
    /\ \E p \in inflight :
        /\ inflight' = inflight \ {p}
        /\ scanProgress' = p
    /\ UNCHANGED <<scanStatus, vulnRows, jobState, attemptsMade, retryDelay,
                   executions, pc, detIdx, tempDir, allVulns, inserted,
                   dbFaults, lastEvent>>
    /\ JobFrame

\* one of them is rejected: .catch(console.error)
ProgressWriteFails ==
    /\ dbFaults < MaxDbFaults
    /\ \E p \in inflight :
        inflight' = inflight \ {p}
    /\ dbFaults' = dbFaults + 1
    /\ UNCHANGED <<scanStatus, scanProgress, vulnRows, jobState, attemptsMade,
                   retryDelay, executions, pc, detIdx, tempDir, allVulns,
                   inserted, lastEvent>>
    /\ JobFrame

----------------------------------------------------------------------------
(* The queue 'scans' and its worker over several jobs.  One call of the    *)
(* processor is its start (scanRepository sets the row to 'scanning') and  *)
(* its end: it resolves after the row was set to 'completed', or rejects   *)
(* after the catch block set it to 'failed'.                               *)

JobIds == 1..NumJobs

RECURSIVE SumRunning(_, _)
SumRunning(f, n) == IF n = 0 THEN 0 ELSE f[n] + SumRunning(f, n - 1)

\* jobs the worker is processing now
ActiveCount == SumRunning(qRunning, NumJobs)

InWait(j) == \E i \in 1..Len(qWait) : qWait[i] = j

\* the queue knows a job with this jobId, in whatever state
JobExists(j) ==
    InWait(j) \/ qRunning[j] > 0 \/ j \in qDelayed \/ qFinished[j] # "no"

\* scanQueue.add(name, data, {jobId}): a jobId the queue already knows is
\* not added again
queueAdd(j) == IF JobExists(j) THEN qWait ELSE Append(qWait, j)

PoolFrame ==
    UNCHANGED <<jobVars, routeVars, applyVars, patchVars, fixVars, wsVars, pushVars,
                branchVars>>

\* POST /api/scan with a valid URL: scanId = randomUUID(), INSERT the row
\* as 'pending', scanQueue.add with jobId = scanId
PoolStartScan ==
    /\ qNext < NumJobs
    /\ qNext' = qNext + 1
    /\ qStatus' = [qStatus EXCEPT ![qNext + 1] = "pending"]
    /\ qWait' = queueAdd(qNext + 1)
    /\ UNCHANGED <<qRunning, qDelayed, qFinished, qAttempts, qFailures>>
    /\ PoolFrame

\* the worker has a free slot (concurrency) and moves the head of the wait
\* list to active; the processor is called with the job
takeGuardNone == TRUE

takeGuard == ActiveCount < Concurrency

takeRestKeep == qWait

takeRest == Tail(qWait)

PoolTake ==
    /\ qWait # <<>>
    /\ takeGuard
    /\ LET j == Head(qWait) IN
        /\ qWait' = takeRest
        /\ qRunning' = [qRunning EXCEPT ![j] = @ + 1]
        /\ qStatus' = [qStatus EXCEPT ![j] = "scanning"]
    /\ UNCHANGED <<qNext, qDelayed, qFinished, qAttempts, qFailures>>
    /\ PoolFrame

\* the processor resolves: the job is moved to completed
PoolResolve ==
    /\ \E j \in JobIds :
        /\ qRunning[j] > 0
        /\ qRunning' = [qRunning EXCEPT ![j] = @ - 1]
        /\ qStatus' = [qStatus EXCEPT ![j] = "completed"]
        /\ qFinished' = [qFinished EXCEPT ![j] = "completed"]
    /\ UNCHANGED <<qNext, qWait, qDelayed, qAttempts, qFailures>>
    /\ PoolFrame

\* the processor rejects: the job is moved to delayed while attempts are
\* left, to failed otherwise
PoolReject ==
    /\ qFailures < MaxFailures
    /\ \E j \in JobIds :
        /\ qRunning[j] > 0
        /\ qRunning' = [qRunning EXCEPT ![j] = @ - 1]
        /\ qStatus' = [qStatus EXCEPT ![j] = "failed"]
        /\ qAttempts' = [qAttempts EXCEPT ![j] = @ + 1]
        /\ IF qAttempts[j] + 1 < Attempts
           THEN /\ qDelayed' = qDelayed \cup {j}
                /\ UNCHANGED qFinished
           ELSE /\ qFinished' = [qFinished EXCEPT ![j] = "failed"]
                /\ UNCHANGED qDelayed
    /\ qFailures' = qFailures + 1
    /\ UNCHANGED <<qNext, qWait>>
    /\ PoolFrame

\* the backoff delay of a delayed job has elapsed: it goes back to wait
PoolPromote ==
    /\ \E j \in qDelayed :
        /\ qDelayed' = qDelayed \ {j}
        /\ qWait' = Append(qWait, j)
    /\ UNCHANGED <<qNext, qRunning, qFinished, qAttempts, qStatus, qFailures>>
    /\ PoolFrame

PoolNext ==
    \/ PoolStartScan
    \/ PoolTake
    \/ PoolResolve
    \/ PoolReject
    \/ PoolPromote

----------------------------------------------------------------------------
(* The scan routes over the row of one scan.  The worker is the            *)
(* environment of the handlers: it sets the row to scanning, inserts       *)
(* vulnerabilities, and sets the row to completed or failed.               *)

RouteFrame ==
    UNCHANGED <<jobVars, poolVars, applyVars, patchVars, fixVars, wsVars, pushVars,
                branchVars>>

\* an HTTP response of the scan routes: the status code, the number of
\* vulnerabilities in the body, and the repositoryUrl of the request it
\* answers (start route)
Resp(route, code, findings, url) ==
    [route |-> route, code |-> code, findings |-> findings, url |-> url]

\* POST /api/scan
StartScan ==
    /\ \E url \in SampleUrls :
        IF url = NoUrl THEN
            /\ response' = Resp("start", 400, 0, url)
            /\ UNCHANGED <<rowStatus, rowUrl, queued>>
        ELSE IF ~validateGitHubUrl(url) THEN
            /\ response' = Resp("start", 400, 0, url)
            /\ UNCHANGED <<rowStatus, rowUrl, queued>>
        ELSE \E userRow \in BOOLEAN, addOk \in BOOLEAN :
            IF ~userRow THEN
                /\ response' = Resp("start", 404, 0, url)
                /\ UNCHANGED <<rowStatus, rowUrl, queued>>
            ELSE
                /\ rowStatus = "none"
                /\ rowStatus' = "pending"
                /\ rowUrl' = url
                /\ IF addOk
                   THEN /\ queued' = TRUE
                        /\ response' = Resp("start", 200, 0, url)
                   ELSE /\ queued' = queued
                        /\ response' = Resp("start", 500, 0, url)
    /\ UNCHANGED <<rowCount, request>>
    /\ RouteFrame

\* the ids a GET request can carry: the scan's id, a well-formed id of no
\* scan, a malformed id; and its callers: the user the scan's row belongs
\* to, or another authenticated user
ScanIds == {"job", "unknown", "malformed"}
ScanCallers == {"owner", "other"}

Req(route, id, caller) == [route |-> route, id |-> id, caller |-> caller]

\* the body of GET /:id/status: the status of the row
StatusResp(code, st) ==
    [route |-> "status", code |-> code, findings |-> 0, url |-> NoUrl,
     status |-> st]

\* ... FROM scans WHERE id = $1 AND user_id = $2 returns the row
selectScanAnyUser(id, userId) == id = "job" /\ rowStatus # "none"

selectScan(id, userId) ==
    id = "job" /\ rowStatus # "none" /\ userId = "owner"

\* the answer of GET /api/scan/:id
getScan(id, userId) ==
    IF id = "malformed" THEN Resp("result", 400, 0, NoUrl)
    ELSE IF ~selectScan(id, userId) THEN Resp("result", 404, 0, NoUrl)
    ELSE Resp("result", 200, rowCount, NoUrl)

\* the answer of GET /api/scan/:id/status
getStatus(id, userId) ==
    IF id = "malformed" THEN Resp("status", 400, 0, NoUrl)
    ELSE IF ~selectScan(id, userId) THEN Resp("status", 404, 0, NoUrl)
    ELSE StatusResp(200, rowStatus)

\* GET /api/scan/:id
GetScan ==
    /\ \E id \in ScanIds, caller \in ScanCallers :
        /\ request' = Req("result", id, caller)
        /\ response' = getScan(id, caller)
    /\ UNCHANGED <<rowStatus, rowUrl, rowCount, queued>>
    /\ RouteFrame

\* GET /api/scan/:id/status
GetStatus ==
    /\ \E id \in ScanIds, caller \in ScanCallers :
        /\ request' = Req("status", id, caller)
        /\ response' = getStatus(id, caller)
    /\ UNCHANGED <<rowStatus, rowUrl, rowCount, queued>>
    /\ RouteFrame

\* the worker runs scanRepository for the queued job: the row is set to
\* scanning, on the first execution and on every retry
RowScanning ==
    /\ queued
    /\ rowStatus \in {"pending", "failed"}
    /\ rowStatus' = "scanning"
    /\ UNCHANGED <<rowUrl, rowCount, queued, response, request>>
    /\ RouteFrame

\* one INSERT INTO vulnerabilities of the store loop
RowInsert ==
    /\ rowStatus = "scanning"
    /\ rowCount < MaxRows
    /\ rowCount' = rowCount + 1
    /\ UNCHANGED <<rowStatus, rowUrl, queued, response, request>>
    /\ RouteFrame

\* the final UPDATE (completed) or the UPDATE of the catch block (failed)
RowFinished ==
    /\ rowStatus = "scanning"
    /\ \E st \in {"completed", "failed"} : rowStatus' = st
    /\ UNCHANGED <<rowUrl, rowCount, queued, response, request>>
    /\ RouteFrame

RoutesNext ==
    \/ StartScan
    \/ GetScan
    \/ GetStatus
    \/ RowScanning
    \/ RowInsert
    \/ RowFinished

----------------------------------------------------------------------------
(* POST /api/ai/apply-fix and the Access Gate                              *)

\* callers by what GitHub grants them on the repository: its owner, a
\* collaborator with push, a collaborator with pull only, nobody
Callers == {"owner", "writer", "reader", "stranger"}

InRepoList(c) == c \in {"owner", "writer", "reader"}
IsOwner(c) == c = "owner"
CanPush(c) == c \in {"owner", "writer"}

\* checkRepositoryAccess(repoUrl, token).hasAccess, for a caller and the
\* outcomes of its calls: users.getAuthenticated, listForAuthenticatedUser
\* and the fallback repos.get
checkRepositoryAccess(c, userOk, listOk, getOk) ==
    IF ~userOk THEN FALSE
    ELSE IF listOk
    THEN IF InRepoList(c) THEN IsOwner(c) \/ CanPush(c) ELSE FALSE
    ELSE IF getOk /\ InRepoList(c) THEN IsOwner(c) \/ CanPush(c) ELSE FALSE

\* FileChanges of the stored fixes: isNewFile, and whether the changes of
\* an existing file hold an 'added' line
NewFile == [isNewFile |-> TRUE, hasAdded |-> FALSE]
EditAdd == [isNewFile |-> FALSE, hasAdded |-> TRUE]
EditMod == [isNewFile |-> FALSE, hasAdded |-> FALSE]

RECURSIVE SeqsUpTo(_, _)
SeqsUpTo(S, n) ==
    IF n = 0 THEN {<<>>}
    ELSE SeqsUpTo(S, n - 1) \cup
         {Append(q, x) : q \in {r \in SeqsUpTo(S, n - 1) : Len(r) = n - 1}, x \in S}

Fixes == SeqsUpTo({NewFile, EditAdd, EditMod}, MaxFiles) \ {<<>>}

ApplyFrame ==
    UNCHANGED <<jobVars, routeVars, poolVars, patchVars, fixVars, wsVars, pushVars,
                branchVars>>

\* the bodies the handler sends
NoBody == [none |-> TRUE]
ErrorBody(msg) == [error |-> msg]
FailedToApply == ErrorBody("Failed to apply fix. Please try again.")
SuccessBody(branches, pulls) ==
    [success |-> TRUE, branchName |-> branches, prNumber |-> pulls]

\* the response is sent and the handler is over
applyRespond(code, body) ==
    /\ apResponse' = code
    /\ apBody' = body
    /\ apPc' = "done"

\* what the handler awaits for FileChange i of the fix, or after the last
afterFileFirstOnly(fix, i) ==
    IF i > 1 THEN "createPull"
    ELSE IF fix[i].isNewFile THEN "putFile" ELSE "getContent"

afterFile(fix, i) ==
    IF i > Len(fix) THEN "createPull"
    ELSE IF fix[i].isNewFile THEN "putFile" ELSE "getContent"

\* the request arrives; the handler runs up to repos.get: body check, the
\* fix row, the user row, the token, the URL pattern
ApplyFixRequest ==
    /\ apPc = "idle"
    /\ \E c \in Callers, fix \in Fixes,
          early \in {"none", "body", "noFix", "noUser", "token", "url"} :
        /\ apCaller' = c
        /\ apFix' = fix
        /\ CASE early = "none" ->
                    apPc' = "getRepo" /\ apResponse' = 0 /\ apBody' = NoBody
             [] early = "body" ->
                    applyRespond(400, ErrorBody("Vulnerability ID and repository URL are required"))
             [] early = "noFix" -> applyRespond(404, ErrorBody("Fix not found"))
             [] early = "noUser" -> applyRespond(404, ErrorBody("User not found"))
             [] early = "token" -> applyRespond(500, FailedToApply)
             [] early = "url" -> applyRespond(400, ErrorBody("Invalid GitHub URL"))
    /\ UNCHANGED <<apFileIdx, apSha, apBranch, apWrites, apPulls, apCalls>>
    /\ ApplyFrame

\* await repos.get, then await git.getRef: reads of the provider
ApplyGetRepo ==
    /\ apPc \in {"getRepo", "getRef"}
    /\ \E ok \in BOOLEAN :
        IF ok
        THEN /\ apPc' = IF apPc = "getRepo" THEN "getRef" ELSE "createRef"
             /\ UNCHANGED <<apResponse, apBody>>
        ELSE applyRespond(500, FailedToApply)
    /\ UNCHANGED <<apCaller, apFix, apFileIdx, apSha, apBranch, apWrites,
                   apPulls, apCalls>>
    /\ ApplyFrame

\* await git.createRef: the provider creates the branch for a caller who
\* may push, and rejects the call otherwise
ApplyCreateRef ==
    /\ apPc = "createRef"
    /\ apCalls' = apCalls + 1
    /\ \E ok \in BOOLEAN :
        IF ok /\ CanPush(apCaller)
        THEN /\ apBranch' = apBranch + 1
             /\ apFileIdx' = 1
             /\ apPc' = afterFile(apFix, 1)
             /\ UNCHANGED <<apResponse, apBody>>
        ELSE /\ applyRespond(500, FailedToApply)
             /\ UNCHANGED <<apBranch, apFileIdx>>
    /\ UNCHANGED <<apCaller, apFix, apSha, apWrites, apPulls>>
    /\ ApplyFrame

\* the answers of repos.getContent: a file with base64 content and its sha,
\* something else (a directory, a file too large to be inlined), or a
\* rejection (404 or any other error)
ContentAnswers == {"file", "other", "rejected"}

\* currentSha after the answer: fileData.sha of a file, '' otherwise
currentSha(answer) == IF answer = "file" THEN "sha" ELSE ""

\* existing file: await repos.getContent on the new branch.  A rejected
\* call is caught: with an 'added' change the file is created from the
\* added lines (the next await, no sha passed), otherwise, as for an answer
\* that is no file, the edits go on with empty content and sha: ''
ApplyGetContent ==
    /\ apPc = "getContent"
    /\ \E answer \in ContentAnswers :
        apSha' = currentSha(answer)
    /\ apPc' = "putFile"
    /\ UNCHANGED <<apCaller, apFix, apFileIdx, apBranch, apWrites, apPulls,
                   apCalls, apResponse, apBody>>
    /\ ApplyFrame

\* await repos.createOrUpdateFileContents for the current FileChange, then
\* the next FileChange or pulls.create
ApplyPutFile ==
    /\ apPc = "putFile"
    /\ apCalls' = apCalls + 1
    /\ \E ok \in BOOLEAN :
        IF ok /\ CanPush(apCaller)
        THEN /\ apWrites' = apWrites + 1
             /\ apFileIdx' = apFileIdx + 1
             /\ apPc' = afterFile(apFix, apFileIdx + 1)
             /\ UNCHANGED <<apResponse, apBody>>
        ELSE /\ applyRespond(500, FailedToApply)
             /\ UNCHANGED <<apWrites, apFileIdx>>
    /\ apSha' = ""
    /\ UNCHANGED <<apCaller, apFix, apBranch, apPulls>>
    /\ ApplyFrame

\* await pulls.create; the success response
ApplyCreatePull ==
    /\ apPc = "createPull"
    /\ apCalls' = apCalls + 1
    /\ \E ok \in BOOLEAN :
        IF ok /\ CanPush(apCaller)
        THEN /\ apPulls' = apPulls + 1
             /\ applyRespond(200, SuccessBody(apBranch, apPulls + 1))
        ELSE /\ applyRespond(500, FailedToApply)
             /\ UNCHANGED apPulls
    /\ UNCHANGED <<apCaller, apFix, apFileIdx, apSha, apBranch, apWrites>>
    /\ ApplyFrame

\* the next request: the repository is looked at anew
ApplyAgain ==
    /\ apPc = "done"
    /\ apPc' = "idle"
    /\ apCaller' = "none"
    /\ apFix' = <<>>
    /\ apFileIdx' = 0
    /\ apSha' = ""
    /\ apBranch' = 0
    /\ apWrites' = 0
    /\ apPulls' = 0
    /\ apCalls' = 0
    /\ apResponse' = 0
    /\ apBody' = NoBody
    /\ ApplyFrame

ApplyNext ==
    \/ ApplyFixRequest
    \/ ApplyGetRepo
    \/ ApplyCreateRef
    \/ ApplyGetContent
    \/ ApplyPutFile
    \/ ApplyCreatePull
    \/ ApplyAgain

----------------------------------------------------------------------------
(* POST /api/ai/apply-fix: the changes applied to an existing file.  A     *)
(* content is a sequence of one-character strings, a line is a content     *)
(* without "\n", and a change is {lineNumber, type, content}.              *)

PatchFrame ==
    UNCHANGED <<jobVars, routeVars, poolVars, applyVars, fixVars, wsVars, pushVars,
                branchVars>>

RECURSIVE SeqsOver(_, _)
SeqsOver(S, n) ==
    IF n = 0 THEN {<<>>}
    ELSE LET shorter == SeqsOver(S, n - 1) IN
         shorter \cup {Append(q, x) : q \in {r \in shorter : Len(r) = n - 1}, x \in S}

Contents == SeqsOver({"a", "\n"}, MaxChars)

Change(n, t, c) == [lineNumber |-> n, type |-> t, content |-> c]

ChangeSet ==
    {Change(n, t, c) : n \in 1..MaxLine, t \in {"removed", "added", "modified"},
                       c \in {<<"x">>, <<"y">>}}

ChangeLists == SeqsOver(ChangeSet, MaxChanges)

\* index of the first "\n" of s, 0 when there is none
RECURSIVE indexOfNewline(_, _)
indexOfNewline(s, i) ==
    IF i > Len(s) THEN 0
    ELSE IF s[i] = "\n" THEN i ELSE indexOfNewline(s, i + 1)

\* String.prototype.split('\n'): the lines of a content, one more than it
\* has "\n"
RECURSIVE split(_)
split(s) ==
    LET i == indexOfNewline(s, 1) IN
    IF i = 0 THEN <<s>>
    ELSE <<SubSeq(s, 1, i - 1)>> \o split(SubSeq(s, i + 1, Len(s)))

\* Array.prototype.join('\n')
RECURSIVE join(_)
join(ls) ==
    IF Len(ls) = 0 THEN <<>>
    ELSE IF Len(ls) = 1 THEN ls[1]
    ELSE ls[1] \o <<"\n">> \o join(Tail(ls))

\* c put into a list sorted by descending lineNumber, behind the elements
\* that do not sort after it (Array.prototype.sort is stable)
insertChange(sorted, c) ==
    LET k == Cardinality({i \in 1..Len(sorted) : sorted[i].lineNumber >= c.lineNumber}) IN
    SubSeq(sorted, 1, k) \o <<c>> \o SubSeq(sorted, k + 1, Len(sorted))

\* changes.sort((a, b) => b.lineNumber - a.lineNumber)
sortChangesNone(cs) == cs

RECURSIVE sortChanges(_)
sortChanges(cs) ==
    IF cs = <<>> THEN <<>>
    ELSE insertChange(sortChanges(SubSeq(cs, 1, Len(cs) - 1)), cs[Len(cs)])

\* Array.prototype.splice(start, deleteCount, ...items), start >= 0
splice(ls, start, deleteCount, items) ==
    LET st == IF start > Len(ls) THEN Len(ls) ELSE start
        d == IF deleteCount > Len(ls) - st THEN Len(ls) - st ELSE deleteCount
    IN SubSeq(ls, 1, st) \o items \o SubSeq(ls, st + d + 1, Len(ls))

\* lines[idx] = c: past the end the array grows, its holes join as ''
setIndex(ls, idx, c) ==
    IF idx < Len(ls) THEN [ls EXCEPT ![idx + 1] = c]
    ELSE ls \o [i \in 1..(idx - Len(ls)) |-> <<>>] \o <<c>>

\* the body of the loop over the sorted changes
applyChangeAddAfter(ls, ch) ==
    IF ch.type = "removed" THEN splice(ls, ch.lineNumber - 1, 1, <<>>)
    ELSE IF ch.type = "added" THEN splice(ls, ch.lineNumber, 0, <<ch.content>>)
    ELSE setIndex(ls, ch.lineNumber - 1, ch.content)

applyChange(ls, ch) ==
    IF ch.type = "removed" THEN splice(ls, ch.lineNumber - 1, 1, <<>>)
    ELSE IF ch.type = "added" THEN splice(ls, ch.lineNumber - 1, 0, <<ch.content>>)
    ELSE setIndex(ls, ch.lineNumber - 1, ch.content)

RECURSIVE applyChanges(_, _)
applyChanges(ls, cs) ==
    IF cs = <<>> THEN ls
    ELSE applyChanges(applyChange(ls, Head(cs)), Tail(cs))

\* the loop reaches a FileChange of an existing file: repos.getContent
\* answers with the content of the file on the new branch
FetchContent ==
    /\ patchPc = "idle"
    /\ currentContent' \in Contents
    /\ changes' \in ChangeLists
    /\ patchPc' = "edit"
    /\ UNCHANGED newContent
    /\ PatchFrame

\* lines = currentContent.split('\n'); the sorted changes are applied;
\* newContent = lines.join('\n')
ApplyChanges ==
    /\ patchPc = "edit"
    /\ newContent' = join(applyChanges(split(currentContent), sortChanges(changes)))
    /\ patchPc' = "written"
    /\ UNCHANGED <<currentContent, changes>>
    /\ PatchFrame

\* the loop goes on to the next FileChange
PatchNextFile ==
    /\ patchPc = "written"
    /\ currentContent' = <<>>
    /\ changes' = <<>>
    /\ newContent' = <<>>
    /\ patchPc' = "idle"
    /\ PatchFrame

PatchNext ==
    \/ FetchContent
    \/ ApplyChanges
    \/ PatchNextFile

----------------------------------------------------------------------------
(* POST /api/ai/generate-fix.  Several requests for the same vulnerability *)
(* run at once, each suspended at one of its awaits; ai_fixes has the key  *)
(* UNIQUE(vulnerability_id, attempt_number).                               *)

FixFrame ==
    UNCHANGED <<jobVars, routeVars, poolVars, applyVars, patchVars, wsVars, pushVars,
                branchVars>>

\* two requests are in progress at once
Requests == {"first", "second"}
Users == {"alice", "bob"}
AttemptNumbers == 1..MaxPatches

\* fix_data: which response of the provider it is and the model it is from
NoFix == [id |-> 0, model |-> "none"]
FixData(k, m) == [id |-> k, model |-> m]

\* a row of ai_fixes, NoRow where the attempt number has none
NoRow == [user |-> "none", fix |-> NoFix]
FixRow(u, d) == [user |-> u, fix |-> d]

\* SELECT ... WHERE vulnerability_id AND user_id ORDER BY attempt_number
\* DESC LIMIT 1: the attempt number of the row found, 0 for no row
latestOf(u) ==
    LET ns == {n \in AttemptNumbers : aiFixes[n].user = u} IN
    IF ns = {} THEN 0 ELSE CHOOSE n \in ns : \A m \in ns : m <= n

\* the highest attempt number persisted for the vulnerability, 0 for none
FindingMax ==
    LET ns == {n \in AttemptNumbers : aiFixes[n] # NoRow} IN
    IF ns = {} THEN 0 ELSE CHOOSE n \in ns : \A m \in ns : m <= n

\* INSERT ... ON CONFLICT (vulnerability_id, attempt_number) DO UPDATE SET
\* fix_data: a new row, or the fix_data of the row that holds the number
upsert(rows, n, u, d) ==
    IF rows[n] = NoRow
    THEN [rows EXCEPT ![n] = FixRow(u, d)]
    ELSE [rows EXCEPT ![n].fix = d]

\* modelsToTry: the user's model, then gemini-2.5-flash unless it is that
UserModels == {"gemini-pro", "gemini-2.5-flash"}

modelsToTry(userModel) ==
    IF userModel = "gemini-2.5-flash"
    THEN <<userModel>>
    ELSE <<userModel, "gemini-2.5-flash">>

\* errors of generateContent: model not found (status 404 or 'not found'),
\* a refused API key, anything else
ModelErrors == {"notFound", "apiKey", "other"}

\* the error makes the loop go on to the next model
isModelUnavailableAny(err) == TRUE

isModelUnavailable(err) == err = "notFound"

\* texts generateContent returns: JSON, JSON inside other text, text with
\* no JSON object, the empty text
ModelTexts == {"json", "embedded", "garbage", "empty"}

\* JSON.parse, or the object matched by /\{[\s\S]*\}/, gives the fix
parses(text) == text \in {"json", "embedded"}

\* status the catch block answers for an error
catchStatus(err) == IF err \in {"apiKey", "notFound"} THEN 400 ELSE 500

\* a call of generateContent the request made: the model and what came of
\* it, an error or "ok" for a text
Outcome(m, res) == [model |-> m, result |-> res]

\* a response of the handler
NoResp == [code |-> 0, cached |-> FALSE, attemptNumber |-> 0, fix |-> NoFix]
GenResp(code, cached, n, d) ==
    [code |-> code, cached |-> cached, attemptNumber |-> n, fix |-> d]
GenError(code) == GenResp(code, FALSE, 0, NoFix)

\* the handler of a free slot
IdleGen ==
    [pc |-> "idle", user |-> "none", useExisting |-> FALSE,
     userModel |-> "none", existing |-> 0, outcomes |-> <<>>, fix |-> NoFix,
     tempDir |-> FALSE, wrote |-> 0, response |-> NoResp]

\* cleanupTempDirectory(dirPath): await fs.rm, whose rejection is caught
\* and logged.  The value is whether the directory is there afterwards
cleanupTempDirectory(exists, rmOk) == exists /\ ~rmOk

\* where the handler goes once its response is sent: the finally block
\* awaits cleanupTempDirectory when tempDir is set
finallyPc(td) == IF td THEN "cleanup" ELSE "done"

\* the response is sent from the try or the catch block: of the handler
\* there remain the response, the calls it made and its tempDir
genRespond(g, resp) ==
    [IdleGen EXCEPT !.pc = finallyPc(g.tempDir), !.tempDir = g.tempDir,
                    !.outcomes = g.outcomes, !.wrote = g.wrote,
                    !.response = resp]

\* the request arrives: the body check
GenerateFixRequest(r) ==
    /\ gen[r].pc = "idle"
    /\ \E u \in Users, ue \in BOOLEAN, bodyOk \in BOOLEAN :
        LET g == [gen[r] EXCEPT !.user = u, !.useExisting = ue] IN
        gen' = [gen EXCEPT ![r] =
                    IF bodyOk THEN [g EXCEPT !.pc = "select"]
                    ELSE genRespond(g, GenError(400))]
    /\ UNCHANGED <<aiFixes, patchSeq>>
    /\ FixFrame

\* await the existingFix query; the cached answer
GenSelectExisting(r) ==
    /\ gen[r].pc = "select"
    /\ \E ok \in BOOLEAN :
        LET g == gen[r]
            n == latestOf(g.user)
        IN gen' = [gen EXCEPT ![r] =
                    IF ~ok THEN genRespond(g, GenError(500))
                    ELSE IF n > 0 /\ g.useExisting
                    THEN genRespond(g, GenResp(200, TRUE, n, aiFixes[n].fix))
                    ELSE [g EXCEPT !.existing = n, !.pc = "user"]]
    /\ UNCHANGED <<aiFixes, patchSeq>>
    /\ FixFrame

\* await the users query; the key, the model, the token, decryptToken
GenLoadUser(r) ==
    /\ gen[r].pc = "user"
    /\ \E out \in {"ok", "rejected", "noUser", "noKey", "noToken", "decrypt"},
          um \in UserModels :
        gen' = [gen EXCEPT ![r] =
                    CASE out = "ok" -> [@ EXCEPT !.userModel = um, !.pc = "clone"]
                      [] out = "rejected" -> genRespond(@, GenError(500))
                      [] out = "noUser" -> genRespond(@, GenError(404))
                      [] out = "noKey" -> genRespond(@, GenError(400))
                      [] out = "noToken" -> genRespond(@, GenError(400))
                      [] out = "decrypt" -> genRespond(@, GenError(500))]
    /\ UNCHANGED <<aiFixes, patchSeq>>
    /\ FixFrame

\* tempDir = await createTempDirectory(); await cloneRepository();
\* await getRelevantFiles(); the first model is called
GenClone(r) ==
    /\ gen[r].pc = "clone"
    /\ \E ok \in BOOLEAN :
        LET g == [gen[r] EXCEPT !.tempDir = TRUE] IN
        gen' = [gen EXCEPT ![r] =
                    IF ok THEN [g EXCEPT !.pc = "model"]
                    ELSE genRespond(g, GenError(500))]
    /\ UNCHANGED <<aiFixes, patchSeq>>
    /\ FixFrame

\* one turn of the loop over modelsToTry: await generateContent of the
\* model whose turn it is.  An error goes on to the next model or is
\* thrown; a text ends the loop, is parsed, and the INSERT is issued
GenModel(r) ==
    /\ gen[r].pc = "model"
    /\ LET g == gen[r]
           models == modelsToTry(g.userModel)
           i == Len(g.outcomes) + 1
       IN \/ \E err \in ModelErrors :
                LET h == [g EXCEPT !.outcomes = Append(@, Outcome(models[i], err))] IN
                /\ gen' = [gen EXCEPT ![r] =
                            IF isModelUnavailable(err)
                            THEN IF i < Len(models) THEN h
                                 ELSE genRespond(h, GenError(400))
                            ELSE genRespond(h, GenError(catchStatus(err)))]
                /\ UNCHANGED patchSeq
          \/ \E text \in ModelTexts :
                LET h == [g EXCEPT !.outcomes = Append(@, Outcome(models[i], "ok"))] IN
                /\ parses(text) => patchSeq < MaxPatches
                /\ patchSeq' = IF parses(text) THEN patchSeq + 1 ELSE patchSeq
                /\ gen' = [gen EXCEPT ![r] =
                            IF text = "empty" THEN genRespond(h, GenError(400))
                            ELSE IF ~parses(text) THEN genRespond(h, GenError(500))
                            ELSE [h EXCEPT !.fix = FixData(patchSeq + 1, models[i]),
                                           !.pc = "insert"]]
    /\ UNCHANGED aiFixes
    /\ FixFrame

\* attemptNumber = the attempt number the existingFix query found + 1, or 1
attemptNumberOf(g) == IF g.existing > 0 THEN g.existing + 1 ELSE 1

\* await INSERT INTO ai_fixes ... ON CONFLICT DO UPDATE; the answer
GenInsert(r) ==
    /\ gen[r].pc = "insert"
    /\ \E ok \in BOOLEAN :
        LET g == gen[r]
            n == attemptNumberOf(g)
        IN IF ok
           THEN /\ aiFixes' = upsert(aiFixes, n, g.user, g.fix)
                /\ gen' = [gen EXCEPT ![r] =
                            genRespond([g EXCEPT !.wrote = 1],
                                       GenResp(200, FALSE, n, g.fix))]
           ELSE /\ gen' = [gen EXCEPT ![r] = genRespond(g, GenError(500))]
                /\ UNCHANGED aiFixes
    /\ UNCHANGED patchSeq
    /\ FixFrame

\* finally block: await cleanupTempDirectory(tempDir); tempDir of a handler
\* that is over says whether its directory is still there
GenCleanup(r) ==
    /\ gen[r].pc = "cleanup"
    /\ \E rmOk \in BOOLEAN :
        gen' = [gen EXCEPT ![r] =
                    [@ EXCEPT !.tempDir = cleanupTempDirectory(@, rmOk),
                              !.pc = "done"]]
    /\ UNCHANGED <<aiFixes, patchSeq>>
    /\ FixFrame

\* the slot is free for the next request
GenAgain(r) ==
    /\ gen[r].pc = "done"
    /\ gen' = [gen EXCEPT ![r] = IdleGen]
    /\ UNCHANGED <<aiFixes, patchSeq>>
    /\ FixFrame

FixNext ==
    \E r \in Requests :
        \/ GenerateFixRequest(r)
        \/ GenSelectExisting(r)
        \/ GenLoadUser(r)
        \/ GenClone(r)
        \/ GenModel(r)
        \/ GenInsert(r)
        \/ GenCleanup(r)
        \/ GenAgain(r)

----------------------------------------------------------------------------
(* The WebSocket server and the registry wsClients, for one scan id.       *)

WsFrame ==
    UNCHANGED <<jobVars, routeVars, poolVars, applyVars, patchVars, fixVars,
                branchVars>>

Conns == 1..NumConns

\* wsClients.set(scanId, ws): the entry of the scan id becomes ws
registerKeepFirst(old, c) == IF old = 0 THEN c ELSE old

register(old, c) == c

\* 'connection': a client connects with the scan id in its URL; the entry
\* is set and the 'connected' message goes to the new connection.  Without
\* scanId the connection is closed (1008) and nothing is registered
WsConnect(c) ==
    /\ wsState[c] = "new"
    /\ \E hasScanId \in BOOLEAN :
        IF hasScanId
        THEN /\ wsState' = [wsState EXCEPT ![c] = "open"]
             /\ wsClients' = register(wsClients, c)
             /\ wsReplaced' = IF wsClients # 0 /\ register(wsClients, c) # wsClients
                              THEN wsReplaced \cup {wsClients}
                              ELSE wsReplaced
             /\ wsLatest' = c
        ELSE /\ wsState' = [wsState EXCEPT ![c] = "closed"]
             /\ UNCHANGED <<wsClients, wsReplaced, wsLatest>>
    /\ UNCHANGED <<wsEvents, wsSentTo>>
    /\ WsFrame

\* client.readyState === WebSocket.OPEN: the connection is open as far as
\* the server knows, whether or not its transport still works
readyStateOpen(c) == wsState[c] \in {"open", "broken"}

\* the transport of an open connection fails: what is sent on it from now
\* on is lost, and the 'error' event comes later
WsBreak(c) ==
    /\ wsState[c] = "open"
    /\ wsState' = [wsState EXCEPT ![c] = "broken"]
    /\ UNCHANGED <<wsClients, wsReplaced, wsLatest, wsEvents, wsSentTo>>
    /\ WsFrame

\* 'error' on a connection: wsClients.delete(scanId); the socket is on its
\* way to closed
WsError(c) ==
    /\ readyStateOpen(c)
    /\ wsState' = [wsState EXCEPT ![c] = "errored"]
    /\ wsClients' = 0
    /\ UNCHANGED <<wsReplaced, wsLatest, wsEvents, wsSentTo>>
    /\ WsFrame

\* 'close' on a connection: wsClients.delete(scanId)
WsClose(c) ==
    /\ wsState[c] \in {"open", "broken", "errored"}
    /\ wsState' = [wsState EXCEPT ![c] = "closed"]
    /\ wsClients' = 0
    /\ UNCHANGED <<wsReplaced, wsLatest, wsEvents, wsSentTo>>
    /\ WsFrame

\* the pipeline has a 'log', 'complete' or 'error' message for the scan:
\* client = wsClients.get(scanId), sent if client is there and OPEN
WsEmit ==
    /\ wsEvents < MaxEvents
    /\ wsEvents' = wsEvents + 1
    /\ wsSentTo' = IF wsClients # 0 /\ readyStateOpen(wsClients)
                   THEN {wsClients} ELSE {}
    /\ UNCHANGED <<wsClients, wsState, wsReplaced, wsLatest>>
    /\ WsFrame

WsNext ==
    \/ \E c \in Conns : WsConnect(c) /\ UNCHANGED pushVars
    \/ \E c \in Conns : WsBreak(c) /\ UNCHANGED pushVars
    \/ \E c \in Conns : WsError(c) /\ UNCHANGED pushVars
    \/ \E c \in Conns : WsClose(c) /\ UNCHANGED pushVars
    \/ WsEmit /\ UNCHANGED pushVars

----------------------------------------------------------------------------
(* The executions of one job next to the connections of its scan id.       *)

PushFrame ==
    UNCHANGED <<jobVars, routeVars, poolVars, applyVars, patchVars, fixVars,
                branchVars>>

\* the messages of the channel
Msg(t, p, st) == [type |-> t, progress |-> p, status |-> st]
Connected == Msg("connected", 0, "")
LogMsg(p, st) == Msg("log", p, st)
CompleteMsg == Msg("complete", 100, "")
ErrorMsg == Msg("error", 0, "")

\* the job as submitted: its row is pending, the queue holds it
SubmittedRun ==
    [pc |-> "idle", job |-> "wait", attempts |-> 0, status |-> "pending",
     det |-> 0, vulns |-> 0, inserted |-> 0, rows |-> 0, tempDir |-> FALSE,
     thrown |-> FALSE, dirs |-> 0]

\* if (client && client.readyState === WebSocket.OPEN) client.send(...):
\* the call is made or not; made on an OPEN connection it does not throw
sendUnguarded(client) == IF client = 0 THEN "throws" ELSE "sent"

send(client) ==
    IF client # 0 /\ readyStateOpen(client) THEN "sent" ELSE "skipped"

\* what the execution r sends once the await it is suspended at has run
runMsgs(r) ==
    CASE r.pc = "updateScanning" -> <<LogMsg(10, "active")>>
      [] r.pc = "clone" -> <<LogMsg(15, "complete"), LogMsg(20, "active")>>
      [] r.pc = "detectTech" -> <<LogMsg(30, "complete")>>
      [] r.pc = "updateTech" -> <<LogMsg(DetectorStages[1][1], "active")>>
      [] r.pc = "detect" ->
            <<LogMsg(DetectorStages[r.det][2], "complete"),
              IF r.det < NumDetectors
              THEN LogMsg(DetectorStages[r.det + 1][1], "active")
              ELSE LogMsg(98, "active")>>
      [] r.pc = "finalUpdate" -> <<LogMsg(100, "complete"), CompleteMsg>>
      [] r.pc = "catchUpdate" -> <<ErrorMsg>>
      [] OTHER -> <<>>

\* an exception in the try block: the catch block issues its UPDATE
runCatch(r) == [r EXCEPT !.pc = "catchUpdate"]

\* the sends that follow an await of the try block, then the next await
runEmit(r, snd, next) ==
    IF snd = "throws" THEN runCatch(r) ELSE [r EXCEPT !.pc = next]

\* scanRepository returned (failed = FALSE) or threw: the worker settles
\* the job
runSettle(r, failed) ==
    IF ~failed
    THEN [r EXCEPT !.pc = "idle", !.job = "completed", !.tempDir = FALSE,
                   !.thrown = FALSE]
    ELSE [r EXCEPT !.pc = "idle", !.attempts = @ + 1,
                   !.job = IF attemptsLeft(r.attempts + 1) THEN "delayed"
                           ELSE "failed",
                   !.tempDir = FALSE, !.thrown = FALSE]

\* finally block: if (tempDir) await cleanupTempDirectory(tempDir)
runFinally(r, thrown) ==
    IF r.tempDir THEN [r EXCEPT !.pc = "cleanup", !.thrown = thrown]
    ELSE runSettle(r, thrown)

\* the await execution r is suspended at runs (ok) or is rejected, a
\* detector returns k findings, and the code up to the next await follows;
\* snd is what the sends of that stretch do
runStep(r, ok, k, snd) ==
    CASE r.pc = "updateScanning" ->
            IF ok THEN runEmit([r EXCEPT !.status = "scanning"], snd, "createTemp")
            ELSE runCatch(r)
      [] r.pc = "createTemp" ->
            IF ok THEN [r EXCEPT !.tempDir = TRUE, !.dirs = @ + 1, !.pc = "clone"]
            ELSE runCatch(r)
      [] r.pc = "clone" ->
            IF ok THEN runEmit(r, snd, "detectTech") ELSE runCatch(r)
      [] r.pc = "detectTech" ->
            IF ok THEN runEmit(r, snd, "updateTech") ELSE runCatch(r)
      [] r.pc = "updateTech" ->
            IF ok THEN runEmit([r EXCEPT !.det = 1], snd, "detect")
            ELSE runCatch(r)
      [] r.pc = "detect" ->
            IF ~ok THEN runCatch(r)
            ELSE IF r.det < NumDetectors
            THEN runEmit([r EXCEPT !.vulns = @ + k, !.det = @ + 1], snd, "detect")
            ELSE runEmit([r EXCEPT !.vulns = @ + k], snd, afterCombine(r.vulns + k))
      [] r.pc = "insert" ->
            IF ok THEN [r EXCEPT !.rows = @ + 1, !.inserted = @ + 1,
                                 !.pc = IF r.inserted + 1 < r.vulns
                                        THEN "insert" ELSE "finalUpdate"]
            ELSE runCatch(r)
      [] r.pc = "finalUpdate" ->
            IF ~ok THEN runCatch(r)
            ELSE IF snd = "throws" THEN runCatch([r EXCEPT !.status = "completed"])
            ELSE runFinally([r EXCEPT !.status = "completed"], FALSE)
      [] r.pc = "catchUpdate" ->
            IF ok THEN runFinally([r EXCEPT !.status = "failed"], TRUE)
            ELSE runFinally(r, TRUE)
      [] r.pc = "cleanup" ->
            runSettle([r EXCEPT !.dirs = IF cleanupTempDirectory(TRUE, ok)
                                         THEN @ ELSE @ - 1], r.thrown)
      [] OTHER -> r

\* the worker takes the job and calls the processor, which runs
\* scanRepository up to its first await
RunTake ==
    /\ run.job = "wait"
    /\ run' = [run EXCEPT !.job = "active", !.pc = "updateScanning", !.det = 0,
                          !.vulns = 0, !.inserted = 0]
    /\ ref' = [ref EXCEPT !.job = "active", !.pc = "updateScanning", !.det = 0,
                          !.vulns = 0, !.inserted = 0]
    /\ UNCHANGED <<runFaults, subLog>>
    /\ UNCHANGED wsVars
    /\ PushFrame

\* the backoff delay has elapsed
RunPromote ==
    /\ run.job = "delayed"
    /\ run' = [run EXCEPT !.job = "wait"]
    /\ ref' = [ref EXCEPT !.job = "wait"]
    /\ UNCHANGED <<runFaults, subLog>>
    /\ UNCHANGED wsVars
    /\ PushFrame

\* what the connection that registered last has received, after the
\* messages msgs were sent in one stretch
received(log, msgs) ==
    IF log = <<>> THEN msgs ELSE <<log[Len(log)]>> \o msgs

\* one await of the execution and the code that follows it.  The messages
\* go to wsClients.get(scanId); they arrive if its transport works
RunStep ==
    /\ run.job = "active"
    /\ \E ok \in IF runFaults < MaxRunFaults THEN BOOLEAN ELSE {TRUE},
          k \in IF run.pc = "detect" /\ run.vulns < MaxFindings THEN 0..1 ELSE {0} :
        LET msgs == IF ok THEN runMsgs(run) ELSE <<>>
            snd == IF msgs = <<>> THEN "skipped" ELSE send(wsClients)
        IN /\ ok \/ k = 0
           /\ run' = runStep(run, ok, k, snd)
           /\ ref' = runStep(ref, ok, k, "skipped")
           /\ runFaults' = IF ok THEN runFaults ELSE runFaults + 1
           /\ subLog' = IF snd = "sent" /\ wsState[wsClients] = "open"
                        THEN received(subLog, msgs) ELSE subLog
    /\ UNCHANGED wsVars
    /\ PushFrame

\* the connections of the scan id: the first one and the one that takes
\* its place
Subscribers == {1, 2}

\* a client connects: the 'connected' message is the first it receives
PushConnect(c) ==
    /\ WsConnect(c)
    /\ subLog' = IF wsState'[c] = "open" THEN <<Connected>> ELSE subLog
    /\ UNCHANGED <<run, ref, runFaults>>

\* a connection that is no longer registered, or whose transport failed,
\* receives nothing from then on
stillReceiving(log, client, st) ==
    IF client # 0 /\ st[client] = "open" THEN log ELSE <<>>

PushBreak(c) ==
    /\ WsBreak(c)
    /\ subLog' = stillReceiving(subLog, wsClients', wsState')
    /\ UNCHANGED <<run, ref, runFaults>>

PushError(c) ==
    /\ WsError(c)
    /\ subLog' = stillReceiving(subLog, wsClients', wsState')
    /\ UNCHANGED <<run, ref, runFaults>>

PushClose(c) ==
    /\ WsClose(c)
    /\ subLog' = stillReceiving(subLog, wsClients', wsState')
    /\ UNCHANGED <<run, ref, runFaults>>

PushNext ==
    \/ RunTake
    \/ RunPromote
    \/ RunStep
    \/ \E c \in Subscribers : PushConnect(c)
    \/ \E c \in Subscribers : PushBreak(c)
    \/ \E c \in Subscribers : PushError(c)
    \/ \E c \in Subscribers : PushClose(c)

----------------------------------------------------------------------------
(* POST /apply-fix: the name of the branch.  Two requests run next to each *)
(* other on one repository; each reads the clock when it builds its name.  *)

BranchFrame ==
    UNCHANGED <<jobVars, routeVars, poolVars, applyVars, patchVars, fixVars,
                wsVars, pushVars>>

\* vulnerability ids (UUIDs) as <<first eight characters, the rest>>
VulnIds == {<<"3f2a9c1e", "x">>, <<"3f2a9c1e", "y">>, <<"b07d44aa", "x">>}

\* vulnerabilityId.substring(0, 8)
substring8(v) == v[1]

\* `vibesec-fix-${vulnerabilityId.substring(0, 8)}-${Date.now()}`
branchName(v, now) == <<"vibesec-fix", substring8(v), now>>

NoName == <<>>

IdleBranch == [pc |-> "idle", name |-> NoName, writes |-> 0, code |-> 0]

\* a millisecond passes
BranchTick ==
    /\ brNow < MaxClock
    /\ brNow' = brNow + 1
    /\ UNCHANGED <<brRefs, brReq>>
    /\ BranchFrame

\* the request arrives and runs up to repos.get: the checks, the fix row,
\* the user row, the URL pattern, and the name of the branch
BranchRequest(r) ==
    /\ brReq[r].pc = "idle"
    /\ \E v \in VulnIds :
        brReq' = [brReq EXCEPT ![r] =
                    [IdleBranch EXCEPT !.pc = "getRepo", !.name = branchName(v, brNow)]]
    /\ UNCHANGED <<brNow, brRefs>>
    /\ BranchFrame

\* await repos.get, await git.getRef
BranchGetRepo(r) ==
    /\ brReq[r].pc = "getRepo"
    /\ \E ok \in BOOLEAN :
        brReq' = [brReq EXCEPT ![r] =
                    IF ok THEN [@ EXCEPT !.pc = "createRef"]
                    ELSE [@ EXCEPT !.pc = "done", !.code = 500]]
    /\ UNCHANGED <<brNow, brRefs>>
    /\ BranchFrame

\* await git.createRef: rejected (422) when the reference exists
BranchCreateRef(r) ==
    /\ brReq[r].pc = "createRef"
    /\ \E ok \in BOOLEAN :
        IF ok /\ brReq[r].name \notin brRefs
        THEN /\ brRefs' = brRefs \cup {brReq[r].name}
             /\ brReq' = [brReq EXCEPT ![r] = [@ EXCEPT !.pc = "files"]]
        ELSE /\ brReq' = [brReq EXCEPT ![r] = [@ EXCEPT !.pc = "done", !.code = 500]]
             /\ UNCHANGED brRefs
    /\ UNCHANGED brNow
    /\ BranchFrame

\* the writes into the branch and the pull request; the answer
BranchFiles(r) ==
    /\ brReq[r].pc = "files"
    /\ \E ok \in BOOLEAN :
        brReq' = [brReq EXCEPT ![r] =
                    IF ok THEN [@ EXCEPT !.pc = "done", !.writes = 1, !.code = 200]
                    ELSE [@ EXCEPT !.pc = "done", !.code = 500]]
    /\ UNCHANGED <<brNow, brRefs>>
    /\ BranchFrame

\* the slot is free for the next request
BranchAgain(r) ==
    /\ brReq[r].pc = "done"
    /\ brReq' = [brReq EXCEPT ![r] = IdleBranch]
    /\ UNCHANGED <<brNow, brRefs>>
    /\ BranchFrame

BranchNext ==
    \/ BranchTick
    \/ \E r \in Requests :
        \/ BranchRequest(r)
        \/ BranchGetRepo(r)
        \/ BranchCreateRef(r)
        \/ BranchFiles(r)
        \/ BranchAgain(r)

----------------------------------------------------------------------------
(* Initial states *)

\* the job as POST /api/scan leaves it: the row inserted as pending, the job
\* added to the queue
JobInit ==
    /\ scanStatus = "pending"
    /\ scanProgress = 0
    /\ vulnRows = 0
    /\ jobState = "wait"
    /\ attemptsMade = 0
    /\ retryDelay = 0
    /\ executions = 0
    /\ pc = "idle"
    /\ detIdx = 0
    /\ tempDir = FALSE
    /\ allVulns = 0
    /\ inserted = 0
    /\ inflight = {}
    /\ dbFaults = 0
    /\ lastEvent = "none"

RouteInit ==
    /\ rowStatus = "none"
    /\ rowUrl = NoUrl
    /\ rowCount = 0
    /\ queued = FALSE
    /\ response = Resp("none", 0, 0, NoUrl)
    /\ request = Req("none", "unknown", "owner")

PoolInit ==
    /\ qNext = 0
    /\ qWait = <<>>
    /\ qRunning = [j \in 1..NumJobs |-> 0]
    /\ qDelayed = {}
    /\ qFinished = [j \in 1..NumJobs |-> "no"]
    /\ qAttempts = [j \in 1..NumJobs |-> 0]
    /\ qStatus = [j \in 1..NumJobs |-> "none"]
    /\ qFailures = 0

ApplyInit ==
    /\ apPc = "idle"
    /\ apCaller = "none"
    /\ apFix = <<>>
    /\ apFileIdx = 0
    /\ apSha = ""
    /\ apBranch = 0
    /\ apWrites = 0
    /\ apPulls = 0
    /\ apCalls = 0
    /\ apResponse = 0
    /\ apBody = NoBody

PatchInit ==
    /\ currentContent = <<>>
    /\ changes = <<>>
    /\ newContent = <<>>
    /\ patchPc = "idle"

FixInit ==
    /\ aiFixes = [n \in AttemptNumbers |-> NoRow]
    /\ patchSeq = 0
    /\ gen = [r \in Requests |-> IdleGen]

WsInit ==
    /\ wsClients = 0
    /\ wsState = [c \in Conns |-> "new"]
    /\ wsReplaced = {}
    /\ wsLatest = 0
    /\ wsEvents = 0
    /\ wsSentTo = {}

PushInit ==
    /\ run = SubmittedRun
    /\ ref = SubmittedRun
    /\ runFaults = 0
    /\ subLog = <<>>

BranchInit ==
    /\ brNow = 0
    /\ brRefs = {}
    /\ brReq = [r \in Requests |-> IdleBranch]

Init ==
    /\ JobInit /\ RouteInit /\ PoolInit /\ ApplyInit /\ PatchInit /\ FixInit
    /\ WsInit /\ PushInit /\ BranchInit

Next ==
    \/ WorkerTake
    \/ PromoteDelayed
    \/ StepUpdateScanning
    \/ StepCreateTemp
    \/ StepClone
    \/ StepDetectTech
    \/ StepUpdateTech
    \/ StepDetect
    \/ StepInsert
    \/ StepFinalUpdate
    \/ StepCatchUpdate
    \/ StepCleanup
    \/ ProgressWriteLands
    \/ ProgressWriteFails

Spec == Init /\ [][Next]_vars

\* the worker, the awaited calls and the progress writes all go on: a step
\* that can be taken is taken in the end
SpecLive == Init /\ [][Next]_vars /\ WF_vars(Next)

SpecRoutes == Init /\ [][RoutesNext]_vars

SpecPool == Init /\ [][PoolNext]_vars

SpecApply == Init /\ [][ApplyNext]_vars

SpecPatch == Init /\ [][PatchNext]_vars

SpecFix == Init /\ [][FixNext]_vars

SpecWs == Init /\ [][WsNext]_vars

SpecPush == Init /\ [][PushNext]_vars

SpecBranch == Init /\ [][BranchNext]_vars

----------------------------------------------------------------------------
(* Properties *)

\* C1 (as stated): the persisted progress of the job never decreases, and in
\* every state progress = 100 exactly when status = completed.
C1_ProgressMonotoneAndFull ==
    /\ [](scanProgress = 100 <=> scanStatus = "completed")
    /\ [][(scanProgress' >= scanProgress)]_vars

\* C2 (as stated): once the persisted status is completed or failed, no step
\* changes it.
C2_TerminalStatusStable ==
    [][(scanStatus \in {"completed", "failed"}) => (scanStatus' = scanStatus)]_vars

C4_OneExecutionPerJob == \A j \in JobIds : qRunning[j] <= 1

\* a retried job is being processed next to another job
C4_Witness ==
    \E j \in JobIds : qRunning[j] = 1 /\ qAttempts[j] >= 1 /\ ActiveCount >= 2

C6_MalformedRejected ==
    /\ []((rowStatus # "none" \/ queued) => rowUrl \in WellFormedUrls)
    /\ [][(response' # response /\ response'.route = "start"
                /\ response'.url \in MalformedUrls \cup {NoUrl})
            => (/\ response'.code = 400
                /\ UNCHANGED <<rowStatus, rowUrl, rowCount, queued>>)]_vars

\* a malformed URL was just refused while no scan exists
C6_Witness ==
    /\ response.route = "start"
    /\ response.url \in MalformedUrls
    /\ response.code = 400
    /\ rowStatus = "none"
    /\ ~queued

\* C7 (as stated): a result request answered while the job is pending or
\* scanning never carries a result payload.
C7_NoResultUntilTerminal ==
    [][(response' # response /\ response'.route = "result"
            /\ rowStatus \in {"pending", "scanning"})
        => (response'.code # 200)]_vars

\* C8: when the row reads completed, and when the 'complete' message has been
\* sent, every finding of the completing execution has been inserted.
C8_FindingsBeforeCompleted ==
    /\ scanStatus = "completed" => inserted = allVulns /\ vulnRows >= allVulns
    /\ lastEvent = "complete" =>
            scanStatus = "completed" /\ inserted = allVulns /\ vulnRows >= allVulns

\* a retried execution with a finding completed and told the client
C8_Witness ==
    /\ scanStatus = "completed"
    /\ lastEvent = "complete"
    /\ allVulns > 0
    /\ executions > 1

\* C9 (as stated): for a completed job the number of persisted findings is
\* the number of findings of one execution.
C9_FindingCountIsDetectorSum == scanStatus = "completed" => vulnRows = allVulns

\* C10 (as stated): for a caller the Access Gate denies, no mutation method
\* of the provider is called and the request does not succeed.
C10_DeniedNoMutation ==
    (apCaller # "none" /\ ~checkRepositoryAccess(apCaller, TRUE, TRUE, TRUE))
        => apCalls = 0 /\ apResponse # 200

\* the lines of the fetched content
Lines == split(currentContent)

\* every change at its line of the fetched content: removed drops the line,
\* added puts its content before the line, modified puts it in its place
editedLine(ls, cs, i) ==
    IF \E k \in 1..Len(cs) : cs[k].lineNumber = i
    THEN LET ch == cs[CHOOSE k \in 1..Len(cs) : cs[k].lineNumber = i] IN
         IF ch.type = "removed" THEN <<>>
         ELSE IF ch.type = "added" THEN <<ch.content, ls[i]>>
         ELSE <<ch.content>>
    ELSE <<ls[i]>>

RECURSIVE editedFrom(_, _, _)
editedFrom(ls, cs, i) ==
    IF i > Len(ls) THEN <<>> ELSE editedLine(ls, cs, i) \o editedFrom(ls, cs, i + 1)

DistinctInside(ls, cs) ==
    /\ \A k \in 1..Len(cs) : cs[k].lineNumber \in 1..Len(ls)
    /\ \A k, m \in 1..Len(cs) : k # m => cs[k].lineNumber # cs[m].lineNumber

\* C11: for changes with pairwise distinct line numbers inside the file, the
\* content written back is the fetched content with every change made at its
\* original line, in whatever order the changes are listed.
C11_EditsAtOriginalLines ==
    (patchPc = "written" /\ DistinctInside(Lines, changes))
        => newContent = join(editedFrom(Lines, changes, 1))

\* a removal listed before an insertion further down the file
C11_Witness ==
    /\ patchPc = "written"
    /\ Len(changes) = 2
    /\ DistinctInside(Lines, changes)
    /\ changes[1].type = "removed"
    /\ changes[2].type = "added"
    /\ changes[1].lineNumber < changes[2].lineNumber
    /\ newContent # currentContent

RemovedThenAdded(ls, cs) ==
    /\ Len(cs) = 2
    /\ cs[1].type = "removed"
    /\ cs[2].type = "added"
    /\ cs[1].lineNumber = cs[2].lineNumber
    /\ cs[1].lineNumber <= Len(ls)

\* C12: a removed change followed by an added change at the same line L of a
\* file with at least L lines gives a file of the same number of lines whose
\* line L is the added content, every other line as it was.
C12_RemovedThenAddedIsModify ==
    (patchPc = "written" /\ RemovedThenAdded(Lines, changes))
        => LET L == changes[1].lineNumber
               out == split(newContent)
           IN /\ Len(out) = Len(Lines)
              /\ out[L] = changes[2].content
              /\ \A i \in 1..Len(Lines) : i # L => out[i] = Lines[i]

\* line 2 of a file of three lines was replaced
C12_Witness ==
    /\ patchPc = "written"
    /\ RemovedThenAdded(Lines, changes)
    /\ changes[1].lineNumber = 2
    /\ Len(Lines) = 3

\* the body names the files that were applied and those that were not
NamesFiles(body) == {"applied", "notApplied"} \subseteq DOMAIN body

\* C13 (as stated): when a write fails after another file was written, the
\* response is an error that names the files applied and not applied.
C13_PartialApplyReported ==
    (apPc = "done" /\ apWrites >= 1 /\ apWrites < Len(apFix))
        => (apResponse # 200 /\ NamesFiles(apBody))

\* C14: a file is written only after the branch was created; the pull request
\* is created only after the branch and a write for every FileChange; a
\* request that ends in an error has created no pull request, and a request
\* answered 200 has created one.
C14_StepsInOrder ==
    /\ apWrites > 0 => apBranch = 1
    /\ apWrites <= Len(apFix)
    /\ apPulls > 0 => (apBranch = 1 /\ apWrites = Len(apFix) /\ apResponse = 200)
    /\ (apPc = "done" /\ apResponse # 200) => apPulls = 0
    /\ apResponse = 200 => apPulls = 1

\* a fix of two FileChanges was written and its pull request created
C14_Witness ==
    /\ apResponse = 200
    /\ apPulls = 1
    /\ Len(apFix) = 2
    /\ apWrites = 2
    /\ apBranch = 1

\* request r gets the result of its existingFix query in this step
SelectReturns(r) == gen[r].pc = "select" /\ gen'[r].pc # "select"

\* request r sends its response in this step
Responds(r) == gen[r].response = NoResp /\ gen'[r].response # NoResp

\* C15 (as stated): a request with useExisting = true for a vulnerability
\* that has a FixAttempt is answered with the latest attempt, cached = true,
\* and goes no further: no provider call, no row created or changed.
C15_CachedWhenAttemptExists ==
    [][\A r \in Requests :
        (SelectReturns(r) /\ gen[r].useExisting /\ FindingMax > 0
                /\ gen'[r].response.code # 500)
            => (/\ gen'[r].response =
                        GenResp(200, TRUE, FindingMax, aiFixes[FindingMax].fix)
                /\ gen'[r].pc = "done"
                /\ aiFixes' = aiFixes)]_vars

\* C16 (as stated): the attempt numbers persisted are 1..k, and every
\* request answered with cached = false has persisted a new row numbered
\* previous max + 1 and returns that number.
C16_NewAttemptPerCall ==
    /\ [](\A n \in AttemptNumbers :
            aiFixes[n] # NoRow => \A m \in 1..n : aiFixes[m] # NoRow)
    /\ [][\A r \in Requests :
            (Responds(r) /\ gen'[r].response.code = 200 /\ ~gen'[r].response.cached)
                => (LET n == gen'[r].response.attemptNumber IN
                    /\ n = FindingMax + 1
                    /\ aiFixes[n] = NoRow
                    /\ aiFixes'[n] = FixRow(gen[r].user, gen'[r].response.fix))]_vars

\* C17 (as stated): the fix_data of a persisted row never changes.
C17_AppendOnly ==
    [][\A n \in AttemptNumbers :
        (aiFixes[n] # NoRow) => (aiFixes'[n] = aiFixes[n])]_vars

\* the calls request slot r has made to the provider
Tried(r) == gen[r].outcomes

\* C18: the models are tried in the order of modelsToTry; a model is tried
\* only after every model before it failed as not found; the fix that is
\* stored and returned is the text of the model tried last, which succeeded;
\* with no earlier attempt it is returned as attempt 1, cached = false.
C18_FallbackInOrder ==
    /\ [](\A r \in Requests :
            /\ \A i \in 1..Len(Tried(r)) :
                /\ i < Len(Tried(r)) => Tried(r)[i].result = "notFound"
                /\ gen[r].pc \in {"model", "insert"} =>
                        /\ i <= Len(modelsToTry(gen[r].userModel))
                        /\ Tried(r)[i].model = modelsToTry(gen[r].userModel)[i]
            /\ gen[r].pc = "insert" =>
                /\ Tried(r) # <<>>
                /\ Tried(r)[Len(Tried(r))].result = "ok"
                /\ gen[r].fix.model = Tried(r)[Len(Tried(r))].model
            /\ (gen[r].response.code = 200 /\ ~gen[r].response.cached) =>
                /\ Tried(r) # <<>>
                /\ Tried(r)[Len(Tried(r))].result = "ok"
                /\ gen[r].response.fix.model = Tried(r)[Len(Tried(r))].model)
    /\ [][\A r \in Requests :
            (Responds(r) /\ gen[r].pc = "insert" /\ gen'[r].response.code = 200)
                => (/\ gen'[r].response.fix = gen[r].fix
                    /\ ~gen'[r].response.cached
                    /\ gen[r].existing = 0 => gen'[r].response.attemptNumber = 1)]_vars

\* the user's model was not found and gemini-2.5-flash gave the fix
C18_Witness ==
    \E r \in Requests :
        /\ gen[r].pc = "done"
        /\ Tried(r) = <<Outcome("gemini-pro", "notFound"),
                        Outcome("gemini-2.5-flash", "ok")>>
        /\ gen[r].response.code = 200
        /\ ~gen[r].response.cached
        /\ gen[r].response.attemptNumber = 1
        /\ gen[r].response.fix.model = "gemini-2.5-flash"

\* C19: a request that is answered with an error has written no row, neither
\* in the step that answers nor before, and when its handler is over the
\* directory it cloned into is deleted.
C19_ErrorLeavesNothing ==
    /\ [](\A r \in Requests :
            /\ gen[r].pc = "done" => ~gen[r].tempDir
            /\ gen[r].response.code \notin {0, 200} => gen[r].wrote = 0
            /\ (gen[r].pc \in {"cleanup", "done"} /\ Tried(r) # <<>>
                    /\ Tried(r)[Len(Tried(r))].result # "ok")
                    => gen[r].response.code \in {400, 500})
    /\ [][\A r \in Requests :
            (Responds(r) /\ gen'[r].response.code # 200) => aiFixes' = aiFixes]_vars

\* C20: the registry holds one connection for the scan id at most, a new
\* connection takes the entry of the one before it, and every message of
\* the scan is sent to one connection at most: the one that registered
\* last, never one that was replaced.
C20_OneSubscriber ==
    /\ [](/\ wsClients \in Conns \cup {0}
          /\ wsClients # 0 => (wsClients = wsLatest /\ wsClients \notin wsReplaced)
          /\ wsLatest \notin wsReplaced)
    /\ [][(wsEvents' # wsEvents) =>
            (/\ Cardinality(wsSentTo') <= 1
             /\ wsSentTo' \subseteq {wsLatest}
             /\ wsSentTo' \cap wsReplaced = {})]_vars

\* a message went to the second connection while the first one, replaced,
\* is still open
C20_Witness ==
    /\ wsSentTo = {2}
    /\ 1 \in wsReplaced
    /\ wsState[1] = "open"
    /\ wsClients = 2

\* C28: once a connection has taken the entry of another one, the close and
\* the error of a connection that is not the registered one leave the entry
\* alone, and a message of the scan is sent to the connection that
\* registered last for as long as the server holds it open.
C28_StaleCloseKeepsSubscriber ==
    /\ [][\A c \in Conns :
            (wsState'[c] # wsState[c] /\ wsState'[c] \in {"errored", "closed"}
                /\ wsClients # c)
            => wsClients' = wsClients]_vars
    /\ [][(wsEvents' # wsEvents /\ wsLatest # 0 /\ readyStateOpen(wsLatest))
            => wsSentTo' = {wsLatest}]_vars

\* C21: at every point of every execution, whatever the connections of the
\* scan id do, the job, its row, its findings and the position of the
\* execution are those of the same job run with no client ever registered.
C21_OutcomeIndependentOfChannel == [](run = ref)

\* the job completed although its first subscriber was replaced and the
\* transport of the second one failed
C21_Witness ==
    /\ run.job = "completed"
    /\ run.status = "completed"
    /\ run.rows = 1
    /\ 1 \in wsReplaced
    /\ wsState[2] = "broken"
    /\ wsClients = 2

\* the 'log' messages of one execution in the order the code sends them
Schedule ==
    <<LogMsg(10, "active"), LogMsg(15, "complete"), LogMsg(20, "active"),
      LogMsg(30, "complete")>>
    \o [i \in 1..(2 * NumDetectors) |->
            IF i % 2 = 1 THEN LogMsg(DetectorStages[(i + 1) \div 2][1], "active")
            ELSE LogMsg(DetectorStages[i \div 2][2], "complete")]
    \o <<LogMsg(98, "active"), LogMsg(100, "complete")>>

position(m) == CHOOSE i \in 1..Len(Schedule) : Schedule[i] = m

\* message b may come after message a in what one subscriber receives
follows(a, b) ==
    CASE b.type = "connected" -> FALSE
      [] a.type \in {"complete", "error"} -> FALSE
      [] a.type = "connected" -> TRUE
      [] b.type \in {"complete", "error"} -> TRUE
      [] OTHER -> /\ position(a) < position(b)
                  /\ a.progress <= b.progress

\* C22: what a connected subscriber receives is 'connected', then 'log'
\* messages in the order of the stages with progress never decreasing, then
\* 'complete' or 'error', and nothing after that.
C22_OrderedEvents ==
    \A i \in 1..(Len(subLog) - 1) : follows(subLog[i], subLog[i + 1])

\* C23: whenever no execution of the job is running, every directory an
\* execution created has been deleted.
C23_TempDirDeleted == run.job # "active" => run.dirs = 0

\* C24: the row of a submitted job ends up completed or failed and stays
\* so; it is not pending or scanning for ever.
C24_EventuallyTerminal == <>[](scanStatus \in {"completed", "failed"})

\* C25: when the UPDATE status = 'scanning', the UPDATE of tech_stack or an
\* UPDATE of progress is rejected, the execution does not go to its catch
\* block: it goes on, and the job does not fail for it.
C25_PersistFailureNotFatal ==
    [][(dbFaults' > dbFaults
            /\ (pc \in {"updateScanning", "updateTech"} \/ inflight' # inflight))
        => (pc' # "catchUpdate")]_vars

\* C26: the write of a FileChange with isNewFile = false is issued with the
\* sha that getContent returned for the file on the new branch, never with
\* an empty one or none.
C26_WriteUsesFetchedSha ==
    [][(apPc = "putFile" /\ apCalls' = apCalls + 1
            /\ ~apFix[apFileIdx].isNewFile)
        => apSha = "sha"]_vars

\* C27: two requests that are under way never hold the same branch name,
\* and no request finds its branch name taken when it creates the branch.
C27_BranchNamesUnique ==
    /\ [](\A r1, r2 \in Requests :
            (r1 # r2 /\ brReq[r1].name # NoName /\ brReq[r2].name # NoName)
                => brReq[r1].name # brReq[r2].name)
    /\ [][\A r \in Requests :
            (brReq[r].pc = "createRef" /\ brReq'[r].pc # "createRef")
                => brReq[r].name \notin brRefs]_vars

\* C29: a row of scans that reads pending has its job in the queue.
C29_PendingHasJob == rowStatus = "pending" => queued

\* C30: a result or status request for the id of a scan made by a user the
\* scan does not belong to is answered exactly as the same request for an
\* id of no scan: 404, and nothing of the row in the body.
C30_OwnerScoped ==
    [][(<<request, response>>' # <<request, response>>
            /\ request'.route \in {"result", "status"}
            /\ response'.route = request'.route
            /\ request'.id = "job" /\ request'.caller # "owner")
        => (/\ response' = (IF request'.route = "result"
                            THEN getScan("unknown", request'.caller)
                            ELSE getStatus("unknown", request'.caller))
            /\ response'.code = 404
            /\ response'.findings = 0
            /\ "status" \notin DOMAIN response')]_vars

\* another user asked for the status of a completed scan with findings and
\* was answered 404
C30_Witness ==
    /\ request = Req("status", "job", "other")
    /\ response = Resp("status", 404, 0, NoUrl)
    /\ rowStatus = "completed"
    /\ rowCount > 0

====
